---- MODULE Spec2Model ----
(***************************************************************************)
(* A model of the goesl inbound ESL client: the dial / authentication      *)
(* handshake (client.go, ESLConnection.Authenticate), the Send-type        *)
(* operations and ReadMessage, the background read loop (receiveLoop /     *)
(* doMessage) and Close, over one socket shared with a FreeSWITCH peer.    *)
(*                                                                         *)
(* Goroutines are processes with a program counter each: "main" runs       *)
(* NewClient, the members of Callers run the public operations, the read   *)
(* loop has an inner (parsing) and an outer (receiveLoop) goroutine.       *)
(* An unbuffered Go channel is a rendezvous: one action moves the sender   *)
(* and the receiver together.  An unrecovered panic ends the process: no   *)
(* action is enabled once panicked is TRUE.                                *)
(***************************************************************************)
EXTENDS Naturals, Sequences, FiniteSets, TLC

\* Bounds of the model.
MaxOps == 2
MaxFrames == 4

Callers == {"c1", "c2"}
Closers == Callers \cup {"main", "recv"}
NoOne == "none"

---------------------------------------------------------------------------
\* Strings the parser inspects are sequences of characters.

ERR == <<"-", "E", "R", "R">>
OKAccepted == <<"+", "O", "K", " ", "a", "c", "c", "e", "p", "t", "e", "d">>
ErrInvalid == <<"-", "E", "R", "R", " ", "i", "n", "v", "a", "l", "i", "d">>
BodyTrue == <<"t", "r", "u", "e">>
BodyErr == <<"-", "E", "R", "R", " ", "n", "o">>
BodyEvent == <<"A", ":", "b", "\n", "\n">>
Empty == << >>
CRLF == <<"\r", "\n">>

\* response.go: the content types and the allow-list.
ContentType_AuthRequest == "auth/request"
ContentType_Reply == "command/reply"
ContentType_APIResponse == "api/response"
ContentType_Disconnect == "text/disconnect-notice"
ContentType_EventPlain == "text/event-plain"
ContentType_EventJSON == "text/event-json"
ContentType_EventXML == "text/event-xml"

AllowedContentTypes ==
    { ContentType_AuthRequest, ContentType_Reply, ContentType_APIResponse,
      ContentType_Disconnect, ContentType_EventPlain, ContentType_EventJSON,
      ContentType_EventXML }

IsExistInSlice(s, list) == s \in list

\* strings.Contains
Contains(s, sub) ==
    \E i \in 0..(Len(s) - Len(sub)) : SubSeq(s, i + 1, i + Len(sub)) = sub

\* s[5:], defined for Len(s) >= 5
From5(s) == SubSeq(s, 6, Len(s))

(***************************************************************************)
(* What the peer puts on the wire.  A frame is its header block (hdrOk is  *)
(* FALSE for a block textproto cannot read), its Content-Type, Reply-Text  *)
(* and body.  id (the frame's position in the peer's output) and re (the   *)
(* command the peer answers with it, 0 for none) are the peer's            *)
(* bookkeeping, carried along to tell frames apart.                        *)
(***************************************************************************)
MkFrame(ok, ct, reply, body) ==
    [hdrOk |-> ok, ct |-> ct, reply |-> reply, body |-> body]

AuthRequestFrame == MkFrame(TRUE, ContentType_AuthRequest, Empty, Empty)
EventFrame == MkFrame(TRUE, ContentType_EventPlain, Empty, BodyEvent)
MalformedFrame == MkFrame(FALSE, "", Empty, Empty)
AcceptedFrame == MkFrame(TRUE, ContentType_Reply, OKAccepted, Empty)
RejectedFrame == MkFrame(TRUE, ContentType_Reply, ErrInvalid, Empty)
ApiTrueFrame == MkFrame(TRUE, ContentType_APIResponse, Empty, BodyTrue)
ApiErrFrame == MkFrame(TRUE, ContentType_APIResponse, Empty, BodyErr)
ApiShortErrFrame == MkFrame(TRUE, ContentType_APIResponse, Empty, ERR)

\* The frames the peer sends unasked: its greeting when it has sent
\* nothing yet, events after it; an unreadable block at any time.
UnsolicitedFrames(sent) ==
    IF sent = 0 THEN {AuthRequestFrame, EventFrame, MalformedFrame}
    ELSE {EventFrame, MalformedFrame}

\* The frames the peer answers a command with (cmd 0 is the auth command).
ReplyFrames(cmd) ==
    IF cmd = 0 THEN {AcceptedFrame, RejectedFrame}
    ELSE {AcceptedFrame, RejectedFrame, ApiTrueFrame, ApiErrFrame,
          ApiShortErrFrame}

Stamp(f, id, re) ==
    [id |-> id, re |-> re, hdrOk |-> f.hdrOk, ct |-> f.ct,
     reply |-> f.reply, body |-> f.body]

NoFrame == Stamp(MkFrame(FALSE, "", Empty, Empty), 0, 0)

\* What callers pass to SendEvent and SendMsg: a header line, a key, a
\* value or a uuid, without and with the line terminator inside.
CallerData == { <<"a">>, <<"a", "\r", "\n", "b">> }

\* One successful call of Write: part `part` of the `parts` parts of command
\* id, carrying the caller's data.
Chunk(id, part, parts, data) ==
    [id |-> id, part |-> part, parts |-> parts, data |-> data]

\* Errors are records; kind tells them apart.
Error(kind, text) == [kind |-> kind, text |-> text]
NoError == Error("nil", Empty)

(***************************************************************************)
(* ParseResponse on one frame of the stream: the *ESLResponse or the error *)
(* it returns.  The -ERR branches slice the payload at 5 and panic on a    *)
(* shorter one.  The frames of this model carry no text/event-json and no  *)
(* nested Content-Length.                                                  *)
(***************************************************************************)
ParseOk(f) == [ok |-> TRUE, panic |-> FALSE, msg |-> f, err |-> NoError]
ParseErr(e) == [ok |-> FALSE, panic |-> FALSE, msg |-> NoFrame, err |-> e]
ParsePanic == [ok |-> FALSE, panic |-> TRUE, msg |-> NoFrame, err |-> NoError]

CommandErrorOf(payload) ==
    IF Len(payload) < 5 THEN ParsePanic
    ELSE ParseErr(Error("CommandError", From5(payload)))

\* textproto's ReadMIMEHeader on the body of a text/event-plain frame
\* succeeds on "key:value" lines closed by an empty line.
NestedHeaderOk(body) ==
    /\ Len(body) >= 2
    /\ body[Len(body)] = "\n" /\ body[Len(body) - 1] = "\n"
    /\ Contains(body, <<":">>)

\* The text/event-plain branch: its errors slice the body at 5 as well.
EventPlainErrorOf(body) ==
    IF Len(body) < 5 THEN ParsePanic
    ELSE ParseErr(Error("ProtocolError", From5(body)))

\* A faulty ParseResponse that leaves the body unread.
ParseResponseNoBody(f) ==
    IF ~f.hdrOk THEN ParseErr(Error("ProtocolError", Empty))
    ELSE IF f.ct = "" THEN ParseErr(Error("ParseEOF", Empty))
    ELSE IF ~IsExistInSlice(f.ct, AllowedContentTypes)
         THEN ParseErr(Error("NotAllowed", Empty))
    ELSE IF f.ct = ContentType_Reply /\ Contains(f.reply, ERR)
         THEN CommandErrorOf(f.reply)
    ELSE IF f.ct = ContentType_APIResponse /\ Contains(f.body, ERR)
         THEN CommandErrorOf(f.body)
    ELSE IF f.ct = ContentType_EventPlain /\ ~NestedHeaderOk(f.body)
         THEN EventPlainErrorOf(f.body)
    ELSE ParseOk([f EXCEPT !.body = Empty])

ParseResponse(f) ==
    IF ~f.hdrOk THEN ParseErr(Error("ProtocolError", Empty))
    ELSE IF f.ct = "" THEN ParseErr(Error("ParseEOF", Empty))
    ELSE IF ~IsExistInSlice(f.ct, AllowedContentTypes)
         THEN ParseErr(Error("NotAllowed", Empty))
    ELSE IF f.ct = ContentType_Reply /\ Contains(f.reply, ERR)
         THEN CommandErrorOf(f.reply)
    ELSE IF f.ct = ContentType_APIResponse /\ Contains(f.body, ERR)
         THEN CommandErrorOf(f.body)
    ELSE IF f.ct = ContentType_EventPlain /\ ~NestedHeaderOk(f.body)
         THEN EventPlainErrorOf(f.body)
    ELSE ParseOk(f)

---------------------------------------------------------------------------
(***************************************************************************)
(* ParseResponse on what it reads.  The reader holds a sequence of         *)
(* symbols, each standing for one byte where lengths are counted: single   *)
(* characters, and names written as one symbol ("Content-Type",            *)
(* "api/response").  Header keys are in canonical form on the wire.        *)
(***************************************************************************)
LF == "\n"

Blanks == {" ", "\t"}

\* s holds the symbol c.
Has(s, c) == \E i \in 1..Len(s) : s[i] = c

\* The place of the first c in s, for s holding c.
IndexOf(s, c) ==
    CHOOSE i \in 1..Len(s) : s[i] = c /\ \A j \in 1..(i - 1) : s[j] # c

\* The symbols of s as one string.
RECURSIVE Join(_)
Join(s) == IF s = << >> THEN "" ELSE Head(s) \o Join(Tail(s))

RECURSIVE TrimLeft(_)
TrimLeft(s) ==
    IF s # << >> /\ Head(s) \in Blanks THEN TrimLeft(Tail(s)) ELSE s

RECURSIVE TrimRight(_)
TrimRight(s) ==
    IF s # << >> /\ s[Len(s)] \in Blanks
    THEN TrimRight(SubSeq(s, 1, Len(s) - 1))
    ELSE s

\* bufio's ReadLine: the line up to its "\n" (or to the end of the stream)
\* without the "\n" and the "\r" before it, and what follows the line.
ReadLine(s) ==
    LET end == IF Has(s, LF) THEN IndexOf(s, LF) ELSE Len(s) + 1
        raw == SubSeq(s, 1, end - 1)
    IN  [line |-> IF raw # << >> /\ raw[Len(raw)] = "\r"
                  THEN SubSeq(raw, 1, Len(raw) - 1)
                  ELSE raw,
         rest |-> SubSeq(s, end + 1, Len(s))]

\* textproto's readContinuedLineSlice: a line, trimmed, with the lines
\* after it that begin with a blank joined to it by one space.
RECURSIVE Continued(_, _)
Continued(line, s) ==
    IF s # << >> /\ Head(s) \in Blanks
    THEN Continued(line \o <<" ">> \o TrimLeft(TrimRight(ReadLine(s).line)),
                   ReadLine(s).rest)
    ELSE [line |-> line, rest |-> s]

ReadContinuedLine(s) ==
    LET l == ReadLine(s)
    IN  IF l.line = << >> THEN l
        ELSE Continued(TrimLeft(TrimRight(l.line)), l.rest)

\* textproto's ReadMIMEHeader from the stream s, m being the pairs read so
\* far: "key: value" lines up to an empty line.  A line without ":" is a
\* protocol error, the end of the stream before the empty line is io.EOF.
RECURSIVE ReadHeaderLines(_, _)
ReadHeaderLines(s, m) ==
    IF s = << >> THEN [header |-> m, err |-> "EOF", rest |-> s]
    ELSE LET l == ReadContinuedLine(s)
             kv == l.line
         IN  IF kv = << >> THEN [header |-> m, err |-> "nil", rest |-> l.rest]
             ELSE IF ~Has(kv, ":")
                  THEN [header |-> m, err |-> "malformed", rest |-> l.rest]
             ELSE LET i == IndexOf(kv, ":")
                      key == Join(SubSeq(kv, 1, i - 1))
                      value == TrimLeft(SubSeq(kv, i + 1, Len(kv)))
                  IN  IF key = "" THEN ReadHeaderLines(l.rest, m)
                      ELSE ReadHeaderLines(l.rest,
                              Append(m, [key |-> key, value |-> value]))

\* ReadMIMEHeader: a first line that begins with a blank is a protocol
\* error.
MIMEHeader(s) ==
    IF s # << >> /\ Head(s) \in Blanks
    THEN [header |-> << >>, err |-> "malformed", rest |-> ReadLine(s).rest]
    ELSE ReadHeaderLines(s, << >>)

\* The keys of a header.
Keys(header) == { header[i].key : i \in 1..Len(header) }

\* header.Get(key): the first value under key, "" when there is none.
Get(header, key) ==
    IF key \in Keys(header)
    THEN header[CHOOSE i \in 1..Len(header) :
                    /\ header[i].key = key
                    /\ \A j \in 1..(i - 1) : header[j].key # key].value
    ELSE Empty

Digits == <<"0", "1", "2", "3", "4", "5", "6", "7", "8", "9">>

IsDigit(c) == \E d \in 1..10 : Digits[d] = c

DigitVal(c) == (CHOOSE d \in 1..10 : Digits[d] = c) - 1

RECURSIVE Decimal(_)
Decimal(s) ==
    IF s = << >> THEN 0
    ELSE 10 * Decimal(SubSeq(s, 1, Len(s) - 1)) + DigitVal(s[Len(s)])

\* strconv.Atoi: an optional sign and decimal digits, or an error.
Atoi(s) ==
    LET digits == IF s # << >> /\ Head(s) \in {"+", "-"} THEN Tail(s) ELSE s
    IN  IF digits = << >> \/ \E i \in 1..Len(digits) : ~IsDigit(digits[i])
        THEN [ok |-> FALSE, n |-> 0]
        ELSE [ok |-> TRUE,
              n |-> IF Head(s) = "-" THEN 0 - Decimal(digits)
                    ELSE Decimal(digits)]

\* A byte of make([]byte, length) that nothing was read into.
NUL == "\\0"

\* A faulty read of the body that takes whatever the reader holds.
ReadAll(s, n) == [buf |-> s, err |-> "nil", rest |-> << >>]

\* io.ReadFull(c.reader, buf) for a buf of n bytes: exactly n bytes, or
\* what there is and io.EOF (nothing read) or io.ErrUnexpectedEOF.
ReadFull(s, n) ==
    IF Len(s) >= n
    THEN [buf |-> SubSeq(s, 1, n), err |-> "nil",
          rest |-> SubSeq(s, n + 1, Len(s))]
    ELSE [buf |-> s \o [i \in 1..(n - Len(s)) |-> NUL],
          err |-> IF s = << >> THEN "EOF" ELSE "UnexpectedEOF",
          rest |-> << >>]

HexDigits ==
    <<"0", "1", "2", "3", "4", "5", "6", "7", "8", "9",
      "a", "b", "c", "d", "e", "f">>

UpperHex == <<"A", "B", "C", "D", "E", "F">>

IsHex(c) ==
    \/ \E d \in 1..16 : HexDigits[d] = c
    \/ \E d \in 1..6 : UpperHex[d] = c

HexVal(c) ==
    IF \E d \in 1..16 : HexDigits[d] = c
    THEN (CHOOSE d \in 1..16 : HexDigits[d] = c) - 1
    ELSE (CHOOSE d \in 1..6 : UpperHex[d] = c) + 9

\* The symbol of the byte n.
Chr(n) ==
    CASE n = 32 -> " "
      [] n = 37 -> "%"
      [] n = 65 -> "A"
      [] OTHER -> "\\x" \o ToString(n)

RECURSIVE Unescape(_)
Unescape(s) ==
    IF s = << >> THEN << >>
    ELSE IF Head(s) = "%"
         THEN <<Chr(16 * HexVal(s[2]) + HexVal(s[3]))>>
                  \o Unescape(SubSeq(s, 4, Len(s)))
    ELSE IF Head(s) = "+" THEN <<" ">> \o Unescape(Tail(s))
    ELSE <<Head(s)>> \o Unescape(Tail(s))

\* url.QueryUnescape: every "%" must be followed by two hex digits, or the
\* result is "" and an error.
QueryUnescape(s) ==
    IF \A i \in 1..Len(s) :
           s[i] = "%" =>
               (i + 2 <= Len(s) /\ IsHex(s[i + 1]) /\ IsHex(s[i + 2]))
    THEN [value |-> Unescape(s), ok |-> TRUE]
    ELSE [value |-> Empty, ok |-> FALSE]

Quote == "\""

NoValue == [ok |-> FALSE, type |-> "", value |-> Empty, rest |-> Empty]

\* How many digits s begins with.
LeadingDigits(s) ==
    CHOOSE n \in 0..Len(s) :
        /\ \A i \in 1..n : IsDigit(s[i])
        /\ n < Len(s) => ~IsDigit(s[n + 1])

\* encoding/json, one value at the head of s: a string between quotes, a
\* number or a literal.  Escapes, white space and nested values are not
\* among the inputs.
JSONValue(s) ==
    IF s = << >> THEN NoValue
    ELSE IF Head(s) = Quote
    THEN IF Has(Tail(s), Quote)
         THEN LET i == IndexOf(Tail(s), Quote)
              IN  [ok |-> TRUE, type |-> "string",
                   value |-> SubSeq(Tail(s), 1, i - 1),
                   rest |-> SubSeq(Tail(s), i + 1, Len(Tail(s)))]
         ELSE NoValue
    ELSE IF IsDigit(Head(s))
    THEN [ok |-> TRUE, type |-> "number",
          value |-> SubSeq(s, 1, LeadingDigits(s)),
          rest |-> SubSeq(s, LeadingDigits(s) + 1, Len(s))]
    ELSE IF Head(s) \in {"null", "true", "false"}
    THEN [ok |-> TRUE, type |-> Head(s), value |-> <<Head(s)>>,
          rest |-> Tail(s)]
    ELSE NoValue

NotDecoded == [ok |-> FALSE, decoded |-> << >>]

\* decoded[key] = v: a later property of the same name replaces an earlier
\* one.
Put(m, key, v) ==
    [k \in (DOMAIN m) \cup {key} |-> IF k = key THEN v ELSE m[k]]

\* The members of a JSON object after its "{", m being those decoded so
\* far.
RECURSIVE JSONMembers(_, _)
JSONMembers(s, m) ==
    LET k == JSONValue(s)
        v == JSONValue(Tail(k.rest))
        m2 == Put(m, Join(k.value), [type |-> v.type, value |-> v.value])
    IN  IF ~k.ok \/ k.type # "string" THEN NotDecoded
        ELSE IF k.rest = << >> \/ Head(k.rest) # ":" THEN NotDecoded
        ELSE IF ~v.ok \/ v.rest = << >> THEN NotDecoded
        ELSE IF Head(v.rest) = "}"
             THEN IF Tail(v.rest) = << >>
                  THEN [ok |-> TRUE, decoded |-> m2]
                  ELSE NotDecoded
        ELSE IF Head(v.rest) = "," THEN JSONMembers(Tail(v.rest), m2)
        ELSE NotDecoded

\* json.Unmarshal(response.Body, &decoded) for decoded a
\* map[string]interface{}: an object gives its properties, null gives none
\* and no error, anything else is an error.
Unmarshal(body) ==
    IF body = <<"null">> \/ body = <<"{", "}">>
    THEN [ok |-> TRUE, decoded |-> << >>]
    ELSE IF body = << >> \/ Head(body) # "{" THEN NotDecoded
    ELSE JSONMembers(Tail(body), << >>)

\* What ParseResponse returns: the response (nil or not) and the error, or
\* a panic; rest is what is left in the reader.
Response(headers, body, rest) ==
    [nil |-> FALSE, Headers |-> headers, Body |-> body, err |-> NoError,
     panic |-> FALSE, rest |-> rest]

Failure(e, rest) ==
    [nil |-> TRUE, Headers |-> << >>, Body |-> Empty, err |-> e,
     panic |-> FALSE, rest |-> rest]

Panic(rest) ==
    [nil |-> TRUE, Headers |-> << >>, Body |-> Empty, err |-> NoError,
     panic |-> TRUE, rest |-> rest]

\* return nil, errors.New("..." + payload[5:]): the slice panics on a
\* payload shorter than 5.
Sliced(kind, payload, rest) ==
    IF Len(payload) < 5 THEN Panic(rest)
    ELSE Failure(Error(kind, From5(payload)), rest)

\* for k, v := range header: response.Headers[k] = v[0], and for a v[0]
\* with "%" inside, response.Headers[k], err = url.QueryUnescape(v[0]).
CopyHeaders(header) ==
    [k \in Keys(header) |->
        IF Has(Get(header, k), "%")
        THEN QueryUnescape(Get(header, k)).value
        ELSE Get(header, k)]

\* case ContentType_EventJSON, after json.Unmarshal: the string values
\* become headers; a "_body" header that is not "" becomes the body and is
\* deleted.
EventJSONHeaders(headers, rest) ==
    IF "_body" \in DOMAIN headers /\ headers["_body"] # Empty
    THEN Response([k \in (DOMAIN headers) \ {"_body"} |-> headers[k]],
                  headers["_body"], rest)
    ELSE Response(headers, Empty, rest)

StringValues(decoded) ==
    [k \in { x \in DOMAIN decoded : decoded[x].type = "string" } |->
        decoded[k].value]

EventJSONDecoded(u, rest) ==
    IF ~u.ok THEN Failure(Error("JSONError", Empty), rest)
    ELSE EventJSONHeaders(StringValues(u.decoded), rest)

EventJSONOf(body, rest) == EventJSONDecoded(Unmarshal(body), rest)

\* case "text/event-plain": the body holds a header block of its own and,
\* under that block's Content-Length, the body proper.
EventPlainBody(headers, b, rest) ==
    IF b.err # "nil" THEN Sliced("ProtocolError", b.buf, rest)
    ELSE Response(headers, b.buf, rest)

EventPlainLength(headers, body, rest, emh, contentLength) ==
    IF contentLength = Empty THEN Response(headers, body, rest)
    ELSE IF ~Atoi(contentLength).ok
         THEN Sliced("ProtocolError", body, rest)
    ELSE IF Atoi(contentLength).n < 0 THEN Panic(rest)
    ELSE EventPlainBody(headers, ReadFull(emh.rest, Atoi(contentLength).n),
                        rest)

EventPlainHeader(headers, body, rest, emh) ==
    IF emh.err # "nil" THEN Sliced("ProtocolError", body, rest)
    ELSE EventPlainLength(headers, body, rest, emh,
                          Get(emh.header, "Content-Length"))

EventPlainOf(headers, body, rest) ==
    EventPlainHeader(headers, body, rest, MIMEHeader(body))

\* ParseResponse from its switch on.
ParseSwitch(contentType, headers, reply, body, rest) ==
    IF contentType = ContentType_Reply /\ Contains(reply, ERR)
    THEN Sliced("CommandError", reply, rest)
    ELSE IF contentType = ContentType_APIResponse /\ Contains(body, ERR)
         THEN Sliced("CommandError", body, rest)
    ELSE IF contentType = ContentType_EventJSON
         THEN EventJSONOf(body, rest)
    ELSE IF contentType = ContentType_EventPlain
         THEN EventPlainOf(headers, body, rest)
    ELSE Response(headers, body, rest)

\* ParseResponse from the allow-list on.
ParseContent(header, contentType, body, rest) ==
    IF ~IsExistInSlice(contentType, AllowedContentTypes)
    THEN Failure(Error("NotAllowed", Empty), rest)
    ELSE ParseSwitch(contentType,
                     IF contentType # ContentType_EventJSON
                     THEN CopyHeaders(header)
                     ELSE << >>,
                     Get(header, "Reply-Text"), body, rest)

\* ParseResponse after io.ReadFull: a short read returns the response, with
\* the buffer it made, and the error.
ParseBody(header, b) ==
    IF b.err # "nil"
    THEN [nil |-> FALSE, Headers |-> << >>, Body |-> b.buf,
          err |-> Error(b.err, Empty), panic |-> FALSE, rest |-> b.rest]
    ELSE ParseContent(header, Join(Get(header, "Content-Type")), b.buf,
                      b.rest)

\* ParseResponse at Content-Length: strconv.Atoi, make([]byte, length),
\* which panics on a negative length, and io.ReadFull.
ParseLength(h, contentLength) ==
    IF contentLength = Empty
    THEN ParseBody(h.header, [buf |-> Empty, err |-> "nil", rest |-> h.rest])
    ELSE IF ~Atoi(contentLength).ok
         THEN Failure(Error("SyntaxError", Empty), h.rest)
    ELSE IF Atoi(contentLength).n < 0 THEN Panic(h.rest)
    ELSE ParseBody(h.header, ReadFull(h.rest, Atoi(contentLength).n))

\* ParseResponse after ReadMIMEHeader.
ParseHeader(h) ==
    IF h.err = "EOF" THEN Failure(Error("EOF", Empty), h.rest)
    ELSE IF h.err # "nil" THEN Failure(Error("ProtocolError", Empty), h.rest)
    ELSE IF Get(h.header, "Content-Type") = Empty
         THEN Failure(Error("ParseEOF", Empty), h.rest)
    ELSE ParseLength(h, Get(h.header, "Content-Length"))

\* ParseResponse on the reader s.
ParseResponseOn(s) == ParseHeader(MIMEHeader(s))

---------------------------------------------------------------------------
VARIABLES
    mainPc,      \* NewClient / EstablishConnection / Authenticate
    client,      \* what NewClient returned: "pending", "conn" or "nil"
    mainErr,     \* the error NewClient returned
    authHdr,     \* the first header Authenticate read
    authReply,   \* the second header Authenticate read
    authCtx,     \* authCtx of EstablishConnection: "live" or "done"
    conn,        \* the socket: "none", "open", "closed" (by this side)
    peerClosed,  \* the peer has closed its side: reads end in EOF
    sent,        \* the frames the peer has sent, in order
    rd,          \* how many of them this side has read
    out,         \* commands written to the socket (0 is the auth command)
    wlog,        \* the calls of Write that succeeded, in order
    answered,    \* commands the peer has answered
    writeLock,   \* holder of c.writeLock
    writeDeadline, \* the socket's write deadline: "none" or "set"
    chClosed,    \* c.responseMessage is closed
    isClosed,    \* c.isClosed
    closeOnce,   \* c.closeOnce: "new", "running", "done"
    closePc,     \* per closer: its position in Close / close
    loopPc,      \* the inner goroutine of receiveLoop
    loopMsg,     \* msg of doMessage
    loopErr,     \* err of the loop
    outerPc,     \* receiveLoop itself
    panicked,    \* a goroutine panicked: the process is gone
    pc,          \* per caller: its position in the operation
    op,          \* per caller: the operation (kind, id, deadline)
    result,      \* per caller: what the last operation returned
    ops,         \* operations started
    \* history, read by the properties only
    teardowns,   \* executions of close()'s body
    connCloses,  \* calls of conn.Close()
    loopStarts,  \* read loops started
    parsedLog,   \* ids of the frames doMessage parsed successfully
    handedLog,   \* ids of the frames handed off through responseMessage
    quiet,       \* the run so far is the disciplined single-caller run
    timeouts,    \* a Send-type wait has ended by its deadline
    \* ParseResponse called on a stream, apart from any connection
    stream,      \* the bytes put into the reader
    reader,      \* the bytes ParseResponse has not read yet
    calls        \* the calls of ParseResponse: the reader before, the result

connectionVars ==
        << mainPc, client, mainErr, authHdr, authReply, authCtx, conn,
           peerClosed, sent, rd, out, wlog, answered, writeLock, writeDeadline,
           chClosed, isClosed, closeOnce,
           closePc, loopPc, loopMsg, loopErr, outerPc, panicked, pc, op,
           result, ops, teardowns, connCloses, loopStarts, parsedLog,
           handedLog, quiet, timeouts >>

parseVars == << stream, reader, calls >>

vars == << connectionVars, parseVars >>

connVars == << conn, chClosed, isClosed, closeOnce, closePc, teardowns,
               connCloses >>
peerVars == << peerClosed, sent, rd, answered >>
mainVars == << mainPc, client, mainErr, authHdr, authReply >>

\* The frames sent and not yet read, and how many were sent.
wire == SubSeq(sent, rd + 1, Len(sent))
nframes == Len(sent)
loopVars == << loopPc, loopMsg, loopErr, outerPc, loopStarts, parsedLog >>
callVars == << pc, op, result, ops, writeLock, writeDeadline >>

\* A successful call of Write as wlog keeps it: the chunk, and how many
\* frames doMessage had parsed by then.
Written(id, part, parts, data) ==
    Chunk(id, part, parts, data) @@ [parsed |-> Len(parsedLog)]

NoOp ==
    [kind |-> "none", id |-> 0, deadline |-> FALSE, arg |-> Empty,
     afterClose |-> FALSE]
NoResult == [kind |-> "none", msg |-> NoFrame, err |-> NoError]
FrameResult(m) == [kind |-> "frame", msg |-> m, err |-> NoError]
ErrResult(e) == [kind |-> "err", msg |-> NoFrame, err |-> e]

\* newConnection, before the dial of EstablishConnection.
ConnectionInit ==
    /\ mainPc = "dial"
    /\ client = "pending"
    /\ mainErr = NoError
    /\ authHdr = NoFrame
    /\ authReply = NoFrame
    /\ authCtx = "live"
    /\ conn = "none"
    /\ peerClosed = FALSE
    /\ sent = << >>
    /\ rd = 0
    /\ out = << >>
    /\ wlog = << >>
    /\ answered = 0
    /\ writeLock = NoOne
    /\ writeDeadline = "none"
    /\ chClosed = FALSE
    /\ isClosed = FALSE
    /\ closeOnce = "new"
    /\ closePc = [q \in Closers |-> "-"]
    /\ loopPc = "none"
    /\ loopMsg = NoFrame
    /\ loopErr = NoError
    /\ outerPc = "none"
    /\ panicked = FALSE
    /\ pc = [p \in Callers |-> "idle"]
    /\ op = [p \in Callers |-> NoOp]
    /\ result = [p \in Callers |-> NoResult]
    /\ ops = 0
    /\ teardowns = 0
    /\ connCloses = 0
    /\ loopStarts = 0
    /\ parsedLog = << >>
    /\ handedLog = << >>
    /\ quiet = TRUE
    /\ timeouts = 0

\* No stream is being parsed apart from the connection's.
Init ==
    /\ ConnectionInit
    /\ stream = Empty
    /\ reader = Empty
    /\ calls = << >>

---------------------------------------------------------------------------
\* The peer (FreeSWITCH, or whatever answers on the socket).

CanSend == conn = "open" /\ ~peerClosed /\ nframes < MaxFrames

\* A frame nobody asked for: the greeting, an event, an unreadable block.
PeerSend(f) ==
    /\ ~panicked
    /\ CanSend
    /\ sent' = Append(sent, Stamp(f, nframes + 1, 0))
    /\ quiet' = (quiet /\ nframes = 0 /\ f.ct = ContentType_AuthRequest)
    /\ UNCHANGED << peerClosed, rd, answered, out, wlog, authCtx, timeouts,
                    handedLog, panicked >>
    /\ UNCHANGED << mainVars, connVars, loopVars, callVars >>
    /\ UNCHANGED parseVars

\* The answer to the oldest command not yet answered.
PeerReply(f) ==
    /\ ~panicked
    /\ CanSend
    /\ answered < Len(out)
    /\ sent' = Append(sent, Stamp(f, nframes + 1, out[answered + 1]))
    /\ answered' = answered + 1
    /\ quiet' = (quiet /\ ParseResponse(f).ok
                       /\ (out[answered + 1] = 0 => f.reply = OKAccepted))
    /\ UNCHANGED << peerClosed, rd, out, wlog, authCtx, timeouts, handedLog,
                    panicked >>
    /\ UNCHANGED << mainVars, connVars, loopVars, callVars >>
    /\ UNCHANGED parseVars

\* The peer closes the socket, at a frame boundary.
PeerClose ==
    /\ ~panicked
    /\ conn = "open" /\ ~peerClosed
    /\ peerClosed' = TRUE
    /\ quiet' = FALSE
    /\ UNCHANGED << sent, rd, answered, out, wlog, authCtx, timeouts, handedLog,
                    panicked >>
    /\ UNCHANGED << mainVars, connVars, loopVars, callVars >>
    /\ UNCHANGED parseVars

---------------------------------------------------------------------------
\* The socket as this side sees it.

\* A read has something to return: a frame, the peer's EOF, or the error
\* of a socket this side closed.
ReadReady == wire # << >> \/ peerClosed \/ conn = "closed"

\* textproto.Reader.ReadMIMEHeader on the stream: the header and the error.
ReadMIMEHeader ==
    IF conn = "closed" THEN [hdr |-> NoFrame, err |-> "closed"]
    ELSE IF wire # << >>
         THEN IF Head(wire).hdrOk THEN [hdr |-> Head(wire), err |-> "nil"]
              ELSE [hdr |-> NoFrame, err |-> "malformed"]
    ELSE [hdr |-> NoFrame, err |-> "EOF"]

\* The read cursor after a read: one frame further if there was one.
Consumed == IF conn # "closed" /\ wire # << >> THEN rd + 1 ELSE rd

\* The outcomes of a write: it fails on a socket this side closed, may
\* fail once the peer has closed, and may fail when the write deadline an
\* earlier operation set on the socket is still there (it may have passed)
\* and this operation has not set a new one.
WriteOutcomes(refreshed) ==
    IF conn # "open" THEN {FALSE}
    ELSE IF peerClosed \/ (writeDeadline = "set" /\ ~refreshed)
         THEN {TRUE, FALSE}
    ELSE {TRUE}

---------------------------------------------------------------------------
\* NewClient / EstablishConnection / Authenticate, run by "main".

\* client.Dial: the socket opens, or NewClient returns the dial error.
Dial ==
    /\ ~panicked
    /\ mainPc = "dial"
    /\ \E okDial \in BOOLEAN :
          IF okDial
          THEN /\ conn' = "open"
               /\ mainPc' = "authRead1"
               /\ UNCHANGED << client, mainErr >>
          ELSE /\ mainPc' = "returned"
               /\ client' = "nil"
               /\ mainErr' = Error("DialError", Empty)
               /\ UNCHANGED conn
    /\ UNCHANGED << authHdr, authReply, authCtx, chClosed, isClosed,
                    closeOnce, closePc, teardowns, connCloses, out, wlog, quiet, timeouts, handedLog,
                    panicked >>
    /\ UNCHANGED << peerVars, loopVars, callVars >>
    /\ UNCHANGED parseVars

\* Authenticate returns err; EstablishConnection calls cancel().
AuthFail(e) ==
    /\ mainPc' = "failed"
    /\ mainErr' = e
    /\ authCtx' = "done"

\* Is the first header the challenge?
IsChallenge(h) == h.ct = ContentType_AuthRequest

\* Authenticate, first read.
AuthRead1 ==
    /\ ~panicked
    /\ mainPc = "authRead1"
    /\ ReadReady
    /\ LET r == ReadMIMEHeader IN
         /\ rd' = Consumed
         /\ authHdr' = r.hdr
         /\ IF r.err \notin {"nil", "EOF"}
            THEN AuthFail(Error("ProtocolError", Empty))
            ELSE IF ~IsChallenge(r.hdr)
            THEN AuthFail(Error("AuthRequestInvalid", Empty))
            ELSE /\ mainPc' = "authWrite"
                 /\ UNCHANGED << mainErr, authCtx >>
    /\ UNCHANGED << client, authReply, closePc, conn, chClosed, isClosed, closeOnce,
                    teardowns, connCloses, peerClosed, sent, answered, out, wlog,
                    quiet, timeouts, handedLog, panicked >>
    /\ UNCHANGED << loopVars, callVars >>
    /\ UNCHANGED parseVars

\* Authenticate, io.WriteString(c.conn, "auth " + password + EndOfMessage).
AuthWrite ==
    /\ ~panicked
    /\ mainPc = "authWrite"
    /\ \E okWrite \in WriteOutcomes(FALSE) :
          IF okWrite
          THEN /\ out' = Append(out, 0)
               /\ wlog' = Append(wlog, Written(0, 1, 1, Empty))
               /\ mainPc' = "authRead2"
               /\ UNCHANGED << mainErr, authCtx >>
          ELSE /\ AuthFail(Error("IOError", Empty))
               /\ UNCHANGED << out, wlog >>
    /\ UNCHANGED << client, authHdr, authReply, closePc, conn, chClosed, isClosed,
                    closeOnce, teardowns, connCloses, quiet, timeouts,
                    handedLog, panicked >>
    /\ UNCHANGED << peerVars, loopVars, callVars >>
    /\ UNCHANGED parseVars

\* A faulty acceptance test: any command/reply passes.
IsAcceptedAnyReply(h) == h.ct = ContentType_Reply

\* Is the answer to the auth command the acceptance?
IsAccepted(h) == h.reply = OKAccepted

\* Authenticate, second read; on acceptance `go c.receiveLoop()`,
\* EstablishConnection calls cancel() and NewClient returns the connection.
AuthRead2 ==
    /\ ~panicked
    /\ mainPc = "authRead2"
    /\ ReadReady
    /\ LET r == ReadMIMEHeader IN
         /\ rd' = Consumed
         /\ authReply' = r.hdr
         /\ IF r.err \notin {"nil", "EOF"}
            THEN /\ AuthFail(Error("ProtocolError", Empty))
                 /\ UNCHANGED << client, loopPc, outerPc, loopStarts >>
            ELSE IF ~IsAccepted(r.hdr)
            THEN /\ AuthFail(Error("InvalidPassword", Empty))
                 /\ UNCHANGED << client, loopPc, outerPc, loopStarts >>
            ELSE /\ loopPc' = "parse"
                 /\ outerPc' = "waitDone"
                 /\ loopStarts' = loopStarts + 1
                 /\ mainPc' = "returned"
                 /\ client' = "conn"
                 /\ authCtx' = "done"
                 /\ UNCHANGED mainErr
    /\ UNCHANGED << authHdr, closePc, conn, chClosed, isClosed, closeOnce,
                    teardowns, connCloses, peerClosed, sent, answered, out, wlog,
                    loopMsg, loopErr, parsedLog, quiet, timeouts, handedLog,
                    panicked >>
    /\ UNCHANGED callVars
    /\ UNCHANGED parseVars

\* A faulty EstablishConnection that returns the error without Close().
EstablishFailNoClose ==
    /\ ~panicked
    /\ mainPc = "failed"
    /\ mainPc' = "returned"
    /\ client' = "nil"
    /\ UNCHANGED << mainErr, authHdr, authReply, authCtx, conn, closePc,
                    chClosed, isClosed, closeOnce, teardowns, connCloses, out, wlog,
                    quiet, timeouts, handedLog, panicked >>
    /\ UNCHANGED << peerVars, loopVars, callVars >>
    /\ UNCHANGED parseVars

\* EstablishConnection, err != nil: connection.Close(), then return nil, err.
EstablishFail ==
    /\ ~panicked
    /\ mainPc = "failed"
    /\ mainPc' = "closing"
    /\ closePc' = [closePc EXCEPT !["main"] = "once"]
    /\ UNCHANGED << client, mainErr, authHdr, authReply, authCtx, conn,
                    chClosed, isClosed, closeOnce, teardowns, connCloses, out, wlog,
                    quiet, timeouts, handedLog, panicked >>
    /\ UNCHANGED << peerVars, loopVars, callVars >>
    /\ UNCHANGED parseVars

\* The deadline of authCtx passes while Authenticate runs.  Authenticate
\* never reads its ctx and sets no read deadline: nothing else changes.
AuthCtxExpire ==
    /\ ~panicked
    /\ mainPc \in {"authRead1", "authWrite", "authRead2"}
    /\ authCtx = "live"
    /\ authCtx' = "done"
    /\ UNCHANGED << out, wlog, quiet, timeouts, handedLog, panicked >>
    /\ UNCHANGED << mainVars, connVars, peerVars, loopVars, callVars >>
    /\ UNCHANGED parseVars

---------------------------------------------------------------------------
\* The public operations, run by the callers on the connection NewClient
\* returned.

\* The callers are alike: the one that starts the first operation is
\* called c1.
CanStart(p) ==
    /\ ~panicked
    /\ client = "conn"
    /\ pc[p] = "idle"
    /\ ops < MaxOps
    /\ ops = 0 => p = "c1"

Begin(p, kind, deadline, arg, at) ==
    /\ op' = [op EXCEPT ![p] = [kind |-> kind, id |-> ops + 1,
                                deadline |-> deadline, arg |-> arg,
                                afterClose |-> closeOnce = "done"]]
    /\ pc' = [pc EXCEPT ![p] = at]
    /\ result' = [result EXCEPT ![p] = NoResult]
    /\ ops' = ops + 1
    /\ quiet' = (quiet /\ kind = "Send" /\ p = "c1")

\* Send: ctx carries DEFAULT_TIMEOUT.
Send(p) ==
    /\ CanStart(p)
    /\ Begin(p, "Send", TRUE, Empty, "lock")
    /\ UNCHANGED << writeLock, writeDeadline, out, wlog, authCtx, timeouts,
                    handedLog, panicked >>
    /\ UNCHANGED << mainVars, connVars, peerVars, loopVars >>
    /\ UNCHANGED parseVars

\* command.go: Api is Send("api " + cmd).
Api(p) == Send(p)

\* SendWithContext: the caller's ctx has a deadline or has none.
SendWithContext(p, deadline) ==
    /\ CanStart(p)
    /\ Begin(p, "SendWithContext", deadline, Empty, "lock")
    /\ UNCHANGED << writeLock, writeDeadline, out, wlog, authCtx, timeouts,
                    handedLog, panicked >>
    /\ UNCHANGED << mainVars, connVars, peerVars, loopVars >>
    /\ UNCHANGED parseVars

SendAsync(p) ==
    /\ CanStart(p)
    /\ Begin(p, "SendAsync", FALSE, Empty, "lock")
    /\ UNCHANGED << writeLock, writeDeadline, out, wlog, authCtx, timeouts,
                    handedLog, panicked >>
    /\ UNCHANGED << mainVars, connVars, peerVars, loopVars >>
    /\ UNCHANGED parseVars

\* command.go: BgApi is SendAsync("api " + cmd).
BgApi(p) == SendAsync(p)

\* SendEvent(eventHeaders): its own ctx carries DEFAULT_TIMEOUT; arg is a
\* header line the caller passes.
SendEvent(p, arg) ==
    /\ CanStart(p)
    /\ Begin(p, "SendEvent", TRUE, arg, "lock")
    /\ UNCHANGED << writeLock, writeDeadline, out, wlog, authCtx, timeouts,
                    handedLog, panicked >>
    /\ UNCHANGED << mainVars, connVars, peerVars, loopVars >>
    /\ UNCHANGED parseVars

\* SendMsg(msg, uuid, data): its own ctx carries DEFAULT_TIMEOUT; arg is the
\* uuid, a key or a value the caller passes.
SendMsg(p, arg) ==
    /\ CanStart(p)
    /\ Begin(p, "SendMsg", TRUE, arg, "lock")
    /\ UNCHANGED << writeLock, writeDeadline, out, wlog, authCtx, timeouts,
                    handedLog, panicked >>
    /\ UNCHANGED << mainVars, connVars, peerVars, loopVars >>
    /\ UNCHANGED parseVars

\* ReadMessage takes no lock and writes nothing: it goes to its select.
ReadMessage(p) ==
    /\ CanStart(p)
    /\ Begin(p, "ReadMessage", FALSE, Empty, "wait")
    /\ UNCHANGED << writeLock, writeDeadline, out, wlog, authCtx, timeouts,
                    handedLog, panicked >>
    /\ UNCHANGED << mainVars, connVars, peerVars, loopVars >>
    /\ UNCHANGED parseVars

\* Close: c.closeOnce.Do(c.close)
Close(p) ==
    /\ CanStart(p)
    /\ Begin(p, "Close", FALSE, Empty, "closing")
    /\ closePc' = [closePc EXCEPT ![p] = "once"]
    /\ UNCHANGED << writeLock, writeDeadline, out, wlog, authCtx, timeouts,
                    handedLog, panicked,
                    conn, chClosed, isClosed, closeOnce, teardowns,
                    connCloses >>
    /\ UNCHANGED << mainVars, peerVars, loopVars >>
    /\ UNCHANGED parseVars

\* A faulty Lock that does not wait for the holder of the lock.
LockUnguarded(p) ==
    /\ ~panicked
    /\ pc[p] = "lock"
    /\ writeLock' = p
    /\ pc' = [pc EXCEPT ![p] = "write"]
    /\ UNCHANGED << writeDeadline, op, result, ops, out, wlog, authCtx, timeouts, handedLog, quiet,
                    panicked >>
    /\ UNCHANGED << mainVars, connVars, peerVars, loopVars >>
    /\ UNCHANGED parseVars

\* c.writeLock.Lock()
Lock(p) ==
    /\ ~panicked
    /\ pc[p] = "lock"
    /\ writeLock = NoOne
    /\ writeLock' = p
    /\ pc' = [pc EXCEPT ![p] = "write"]
    /\ UNCHANGED << writeDeadline, op, result, ops, out, wlog, authCtx, timeouts, handedLog, quiet,
                    panicked >>
    /\ UNCHANGED << mainVars, connVars, peerVars, loopVars >>
    /\ UNCHANGED parseVars

\* defer c.writeLock.Unlock()
Unlocked(p) == IF writeLock = p THEN NoOne ELSE writeLock

\* The operation of p returns r; the deferred unlock runs.
Return(p, r) ==
    /\ pc' = [pc EXCEPT ![p] = "idle"]
    /\ result' = [result EXCEPT ![p] = r]
    /\ writeLock' = Unlocked(p)

OkResult == [kind |-> "ok", msg |-> NoFrame, err |-> NoError]

\* strings.Contains(x, "\r\n")
HasCRLF(x) == Contains(x, CRLF)

\* SendMsg returns an error when uuid, a key or a value holds "\r\n", before
\* it writes anything.  No other operation checks what it is given.
ValidArguments(p) == op[p].kind = "SendMsg" => ~HasCRLF(op[p].arg)

\* if deadline, ok := ctx.Deadline(); ok { c.conn.SetWriteDeadline(deadline) }
\* SendAsync has no ctx and sets none.
SetsWriteDeadline(p) == op[p].kind # "SendAsync" /\ op[p].deadline

\* How many calls of Write the command takes: SendEvent writes "sendevent "
\* and then, call by call, the header lines and the terminator.
Parts(kind) == IF kind = "SendEvent" THEN 2 ELSE 1

\* c.conn.Write: the command, or the first part of it; SendAsync returns
\* here.
Write(p) ==
    /\ ~panicked
    /\ pc[p] = "write"
    /\ writeDeadline' = IF SetsWriteDeadline(p) THEN "set" ELSE writeDeadline
    /\ \E okWrite \in WriteOutcomes(SetsWriteDeadline(p)) :
          IF ~ValidArguments(p)
          THEN /\ Return(p, ErrResult(Error("InvalidArgument", Empty)))
               /\ UNCHANGED << out, wlog >>
          ELSE IF ~okWrite
          THEN /\ Return(p, ErrResult(Error("IOError", Empty)))
               /\ UNCHANGED << out, wlog >>
          ELSE IF Parts(op[p].kind) = 2
          THEN /\ wlog' = Append(wlog, Written(op[p].id, 1, 2, Empty))
               /\ pc' = [pc EXCEPT ![p] = "writeRest"]
               /\ UNCHANGED << out, result, writeLock >>
          ELSE /\ out' = Append(out, op[p].id)
               /\ wlog' = Append(wlog, Written(op[p].id, 1, 1, op[p].arg))
               /\ IF op[p].kind = "SendAsync"
                  THEN Return(p, OkResult)
                  ELSE /\ pc' = [pc EXCEPT ![p] = "wait"]
                       /\ UNCHANGED << result, writeLock >>
    /\ UNCHANGED << op, ops, authCtx, timeouts, handedLog, quiet, panicked >>
    /\ UNCHANGED << mainVars, connVars, peerVars, loopVars >>
    /\ UNCHANGED parseVars

\* SendEvent: the writes of the header lines, of their "\r\n" and of the
\* closing "\r\n"; the command is on the wire after the last of them.  No
\* deadline is set between the writes: the one on the socket, this
\* operation's included, may pass before a later write.
WriteRest(p) ==
    /\ ~panicked
    /\ pc[p] = "writeRest"
    /\ \E okWrite \in WriteOutcomes(FALSE) :
          IF ~okWrite
          THEN /\ Return(p, ErrResult(Error("IOError", Empty)))
               /\ UNCHANGED << out, wlog >>
          ELSE /\ out' = Append(out, op[p].id)
               /\ wlog' = Append(wlog, Written(op[p].id, 2, 2, op[p].arg))
               /\ pc' = [pc EXCEPT ![p] = "wait"]
               /\ UNCHANGED << result, writeLock >>
    /\ UNCHANGED << writeDeadline, op, ops, authCtx, timeouts, handedLog,
                    quiet, panicked >>
    /\ UNCHANGED << mainVars, connVars, peerVars, loopVars >>
    /\ UNCHANGED parseVars

\* c.responseChanMutex is only ever read-locked (close() takes no lock):
\* RLock never blocks and is no step of its own.

\* select, case response := <-c.responseMessage, a frame: the rendezvous
\* with doMessage's send; the loop goes on to its next iteration.
RecvFrame(p) ==
    /\ ~panicked
    /\ pc[p] = "wait"
    /\ loopPc = "send"
    /\ ~chClosed
    /\ Return(p, FrameResult(loopMsg))
    /\ handedLog' = Append(handedLog, loopMsg.id)
    /\ loopPc' = "parse"
    /\ UNCHANGED << writeDeadline, op, ops, out, wlog, authCtx, timeouts, quiet, panicked, loopMsg,
                    loopErr, outerPc, loopStarts, parsedLog >>
    /\ UNCHANGED << mainVars, connVars, peerVars >>
    /\ UNCHANGED parseVars

\* select, case response := <-c.responseMessage, nil from the closed
\* channel.
RecvClosed(p) ==
    /\ ~panicked
    /\ pc[p] = "wait"
    /\ chClosed
    /\ Return(p, ErrResult(Error("ConnectionClosed", Empty)))
    /\ UNCHANGED << writeDeadline, op, ops, out, wlog, authCtx, timeouts, handedLog, quiet,
                    panicked >>
    /\ UNCHANGED << mainVars, connVars, peerVars, loopVars >>
    /\ UNCHANGED parseVars

\* select, case err := <-c.err: the rendezvous with the loop's c.err <- err.
RecvErr(p) ==
    /\ ~panicked
    /\ pc[p] = "wait"
    /\ loopPc = "sendErr"
    /\ Return(p, ErrResult(loopErr))
    /\ loopPc' = "sendDone"
    /\ UNCHANGED << writeDeadline, op, ops, out, wlog, authCtx, timeouts, handedLog, quiet,
                    panicked, loopMsg, loopErr, outerPc, loopStarts,
                    parsedLog >>
    /\ UNCHANGED << mainVars, connVars, peerVars >>
    /\ UNCHANGED parseVars

\* Has the select of p a <-ctx.Done() case that fires?
HasDeadline(p) == op[p].kind # "ReadMessage" /\ op[p].deadline

\* select, case <-ctx.Done(): return nil, ctx.Err()
Timeout(p) ==
    /\ ~panicked
    /\ pc[p] = "wait"
    /\ HasDeadline(p)
    /\ Return(p, ErrResult(Error("DeadlineExceeded", Empty)))
    /\ timeouts' = 1
    /\ quiet' = FALSE
    /\ UNCHANGED << writeDeadline, op, ops, out, wlog, authCtx, handedLog, panicked >>
    /\ UNCHANGED << mainVars, connVars, peerVars, loopVars >>
    /\ UNCHANGED parseVars

---------------------------------------------------------------------------
\* receiveLoop: the inner goroutine runs doMessage until it fails, the
\* outer one waits for done and calls Close.  Nothing cancels
\* runningContext (stopFunc is never called): its Err() stays nil and its
\* Done() never fires.

\* ParseResponse on the stream as it is.
LoopRead ==
    IF conn = "closed" THEN ParseErr(Error("IOError", Empty))
    ELSE IF wire = << >> THEN ParseErr(Error("EOF", Empty))
    ELSE ParseResponse(Head(wire))

\* doMessage: msg, err := c.ParseResponse()
LoopParse ==
    /\ ~panicked
    /\ loopPc = "parse"
    /\ ReadReady
    /\ LET r == LoopRead IN
         /\ rd' = Consumed
         /\ IF r.panic
            THEN /\ panicked' = TRUE
                 /\ UNCHANGED << loopPc, loopMsg, loopErr, parsedLog >>
            ELSE IF r.ok
            THEN /\ loopPc' = "check"
                 /\ loopMsg' = r.msg
                 /\ parsedLog' = Append(parsedLog, r.msg.id)
                 /\ UNCHANGED << loopErr, panicked >>
            ELSE /\ loopPc' = "sendErr"
                 /\ loopErr' = r.err
                 /\ UNCHANGED << loopMsg, parsedLog, panicked >>
    /\ UNCHANGED << outerPc, loopStarts, peerClosed, sent, answered, out, wlog,
                    authCtx, timeouts, handedLog, quiet >>
    /\ UNCHANGED << mainVars, connVars, callVars >>
    /\ UNCHANGED parseVars

\* What the unsynchronised read of c.isClosed can see: close() writes the
\* flag under no lock, so the read races with it and may miss the write.
ReadIsClosed == IF isClosed THEN {TRUE, FALSE} ELSE {FALSE}

\* A faulty doMessage whose send does not wait for a receiver: with no
\* caller in its select the frame is dropped.
LoopCheckLossy ==
    /\ ~panicked
    /\ loopPc = "check"
    /\ \E seen \in ReadIsClosed :
          IF seen
          THEN /\ loopPc' = "sendErr"
               /\ loopErr' = Error("NoResponseChannel", Empty)
          ELSE /\ loopPc' = IF \E p \in Callers : pc[p] = "wait"
                            THEN "send" ELSE "parse"
               /\ UNCHANGED loopErr
    /\ UNCHANGED << loopMsg, outerPc, loopStarts, parsedLog, out, wlog, authCtx,
                    timeouts, handedLog, quiet, panicked >>
    /\ UNCHANGED << mainVars, connVars, peerVars, callVars >>
    /\ UNCHANGED parseVars

\* doMessage: if c.isClosed { return errors.New(...) }
LoopCheck ==
    /\ ~panicked
    /\ loopPc = "check"
    /\ \E seen \in ReadIsClosed :
          IF seen
          THEN /\ loopPc' = "sendErr"
               /\ loopErr' = Error("NoResponseChannel", Empty)
          ELSE /\ loopPc' = "send"
               /\ UNCHANGED loopErr
    /\ UNCHANGED << loopMsg, outerPc, loopStarts, parsedLog, out, wlog, authCtx,
                    timeouts, handedLog, quiet, panicked >>
    /\ UNCHANGED << mainVars, connVars, peerVars, callVars >>
    /\ UNCHANGED parseVars

\* doMessage: the select's send finds the channel closed: panic.
LoopSendClosed ==
    /\ ~panicked
    /\ loopPc = "send"
    /\ chClosed
    /\ panicked' = TRUE
    /\ UNCHANGED << out, wlog, authCtx, timeouts, handedLog, quiet >>
    /\ UNCHANGED << mainVars, connVars, peerVars, loopVars, callVars >>
    /\ UNCHANGED parseVars

\* done <- true meets <-done: the inner goroutine ends, receiveLoop calls
\* c.Close().
LoopDone ==
    /\ ~panicked
    /\ loopPc = "sendDone"
    /\ outerPc = "waitDone"
    /\ loopPc' = "exit"
    /\ outerPc' = "closing"
    /\ closePc' = [closePc EXCEPT !["recv"] = "once"]
    /\ UNCHANGED << loopMsg, loopErr, loopStarts, parsedLog, out, wlog, authCtx,
                    timeouts, handedLog, quiet, panicked, conn, chClosed,
                    isClosed, closeOnce, teardowns, connCloses >>
    /\ UNCHANGED << mainVars, peerVars, callVars >>
    /\ UNCHANGED parseVars

---------------------------------------------------------------------------
\* Close and close, run by a caller, by EstablishConnection after a failed
\* handshake ("main") or by receiveLoop ("recv").

\* A faulty guard that lets every call run f.
OnceRunsAlways == TRUE

\* sync.Once: may this call run f?
OnceRuns == closeOnce = "new"

\* Close returns to q.
CloseReturn(q) ==
    /\ closePc' = [closePc EXCEPT ![q] = "-"]
    /\ IF q \in Callers
       THEN /\ pc' = [pc EXCEPT ![q] = "idle"]
            /\ result' = [result EXCEPT ![q] = OkResult]
            /\ UNCHANGED << mainPc, client, outerPc >>
       ELSE IF q = "main"
       THEN /\ mainPc' = "returned"
            /\ client' = "nil"
            /\ UNCHANGED << pc, result, outerPc >>
       ELSE /\ outerPc' = "end"
            /\ UNCHANGED << pc, result, mainPc, client >>

\* closeOnce.Do: the first call runs close(); a call made while close()
\* runs waits for it; a call made after it returns at once.
CloseEnter(q) ==
    /\ ~panicked
    /\ closePc[q] = "once"
    /\ closeOnce # "running"
    /\ IF OnceRuns
       THEN /\ closeOnce' = "running"
            /\ closePc' = [closePc EXCEPT ![q] = "chan"]
            /\ UNCHANGED << pc, result, mainPc, client, outerPc >>
       ELSE /\ CloseReturn(q)
            /\ UNCHANGED closeOnce
    /\ UNCHANGED << mainErr, authHdr, authReply, authCtx, conn, chClosed,
                    isClosed,
                    teardowns, connCloses, out, wlog, writeLock, writeDeadline, op, ops,
                    loopPc,
                    loopMsg, loopErr, loopStarts, parsedLog, timeouts,
                    handedLog, quiet, panicked >>
    /\ UNCHANGED peerVars
    /\ UNCHANGED parseVars

\* close(): close(c.responseMessage); closing a closed channel panics.
CloseChan(q) ==
    /\ ~panicked
    /\ closePc[q] = "chan"
    /\ teardowns' = teardowns + 1
    /\ IF chClosed
       THEN panicked' = TRUE /\ UNCHANGED << chClosed, closePc >>
       ELSE /\ chClosed' = TRUE
            /\ closePc' = [closePc EXCEPT ![q] = "flag"]
            /\ UNCHANGED panicked
    /\ UNCHANGED << conn, isClosed, closeOnce, connCloses, out, wlog, authCtx,
                    timeouts, handedLog, quiet >>
    /\ UNCHANGED << mainVars, peerVars, loopVars, callVars >>
    /\ UNCHANGED parseVars

\* close(): c.isClosed = true
CloseFlag(q) ==
    /\ ~panicked
    /\ closePc[q] = "flag"
    /\ isClosed' = TRUE
    /\ closePc' = [closePc EXCEPT ![q] = "conn"]
    /\ UNCHANGED << conn, chClosed, closeOnce, teardowns, connCloses, out, wlog,
                    authCtx, timeouts, handedLog, quiet, panicked >>
    /\ UNCHANGED << mainVars, peerVars, loopVars, callVars >>
    /\ UNCHANGED parseVars

\* close(): c.conn.Close(), its error only logged; close() and Do return.
CloseConn(q) ==
    /\ ~panicked
    /\ closePc[q] = "conn"
    /\ conn' = "closed"
    /\ connCloses' = connCloses + 1
    /\ closeOnce' = "done"
    /\ CloseReturn(q)
    /\ UNCHANGED << mainErr, authHdr, authReply, authCtx, chClosed, isClosed,
                    teardowns,
                    out, wlog, writeLock, writeDeadline, op, ops,
                    loopPc, loopMsg, loopErr,
                    loopStarts, parsedLog, timeouts, handedLog, quiet,
                    panicked >>
    /\ UNCHANGED peerVars
    /\ UNCHANGED parseVars

---------------------------------------------------------------------------
\* What the peer and the callers do: the environment.
Environment ==
    \/ \E f \in UnsolicitedFrames(nframes) : PeerSend(f)
    \/ \E f \in ReplyFrames(IF answered < Len(out) THEN out[answered + 1] ELSE 0) :
          PeerReply(f)
    \/ PeerClose
    \/ AuthCtxExpire
    \/ \E p \in Callers :
          \/ Send(p)
          \/ Api(p)
          \/ BgApi(p)
          \/ \E deadline \in BOOLEAN : SendWithContext(p, deadline)
          \/ SendAsync(p)
          \/ \E arg \in CallerData : SendEvent(p, arg)
          \/ \E arg \in CallerData : SendMsg(p, arg)
          \/ ReadMessage(p)
          \/ Close(p)

\* What the goroutines of the library do once started.
Progress ==
    \/ Dial
    \/ AuthRead1
    \/ AuthWrite
    \/ AuthRead2
    \/ EstablishFail
    \/ LoopParse
    \/ LoopCheck
    \/ LoopSendClosed
    \/ LoopDone
    \/ \E q \in Closers :
          \/ CloseEnter(q)
          \/ CloseChan(q)
          \/ CloseFlag(q)
          \/ CloseConn(q)
    \/ \E p \in Callers :
          \/ Lock(p)
          \/ Write(p)
          \/ WriteRest(p)
          \/ RecvFrame(p)
          \/ RecvClosed(p)
          \/ RecvErr(p)
          \/ Timeout(p)

Next == Environment \/ Progress

Spec == Init /\ [][Next]_vars

\* The Go scheduler runs every runnable goroutine, and a deadline passes.
FairSpec == Spec /\ WF_vars(Progress)

---------------------------------------------------------------------------
(***************************************************************************)
(* ParseResponse called again and again on one stream.  The stream is what *)
(* a peer may put on the wire: header blocks with the body bytes that      *)
(* follow them, as many as declared, fewer or more.                        *)
(***************************************************************************)

\* How many frames the peer puts into the stream.
MaxStreamFrames == 2

\* strconv.Itoa, for the lengths met here.
Itoa(n) ==
    IF n < 10 THEN <<Digits[n + 1]>>
    ELSE <<Digits[(n \div 10) + 1], Digits[(n % 10) + 1]>>

HeaderLine(key, value) == <<key, ":", " ">> \o value \o <<LF>>

\* A header block: Content-Type, Content-Length when declared is not "",
\* the other lines, the empty line.
Block(contentType, declared, lines) ==
    HeaderLine("Content-Type", <<contentType>>)
        \o (IF declared = Empty THEN << >>
            ELSE HeaderLine("Content-Length", declared))
        \o lines \o <<LF>>

\* A frame with a correct Content-Length.
Framed(contentType, body) ==
    Block(contentType, Itoa(Len(body)), << >>) \o body

\* A content type this library does not know.
ContentType_Rude == "text/rude-rejection"

\* Declared lengths and the bytes that follow the block.
DeclaredLengths == { Empty, <<"2">>, <<"x">> }
FollowingBytes == { Empty, <<"a">>, <<"a", "b">>, <<"a", "b", "c">> }

LengthFrames ==
    { Block(ct, declared, << >>) \o bytes :
        ct \in {ContentType_AuthRequest, ContentType_Rude},
        declared \in DeclaredLengths, bytes \in FollowingBytes }
    \cup { Block(ContentType_Disconnect, <<"0">>, << >>),
           Block(ContentType_AuthRequest, <<"-", "1">>, << >>) }

ReplyOK == <<"+", "O", "K">>

ReplyTexts ==
    { ReplyOK, BodyErr, ERR, <<"n", "o", " ", "-", "E", "R", "R">> }

ReplyFramesOf ==
    { Block(ContentType_Reply, Empty, HeaderLine("Reply-Text", r)) :
        r \in ReplyTexts }

ApiBodies == { BodyTrue, BodyErr, ERR, <<"x", "-", "E", "R", "R">> }

ApiFrames == { Framed(ContentType_APIResponse, b) : b \in ApiBodies }

\* Header values with and without "%".
HeaderValues ==
    { <<"a", "b">>, <<"a", "+", "b">>, <<"a", "%", "4", "1">>,
      <<"1", "0", "0", "%">>, <<"%", "z", "z">> }

ValueFrames ==
    { Block(ct, Empty, HeaderLine("X-Data", v)) :
        ct \in {ContentType_Reply, ContentType_Disconnect},
        v \in HeaderValues }

JSONString(s) == <<Quote>> \o s \o <<Quote>>

Member(key, v) == JSONString(<<key>>) \o <<":">> \o v

Members ==
    { Member("_body", JSONString(<<"x">>)),
      Member("_body", JSONString(Empty)),
      Member("_body", <<"1">>),
      Member("Event-Name", JSONString(<<"A">>)),
      Member("n", <<"1">>) }

JSONBodies ==
    { <<"{", "}">>, <<"{">> }
    \cup { <<"{">> \o m \o <<"}">> : m \in Members }
    \cup { <<"{">> \o m[1] \o <<",">> \o m[2] \o <<"}">> :
             m \in { x \in Members \X Members : x[1] # x[2] } }

JSONFrames == { Framed(ContentType_EventJSON, j) : j \in JSONBodies }

PlainBodies ==
    { BodyEvent, <<"A", ":", "b">>,
      <<"Content-Length", ":", "1", LF, LF, "x">>,
      <<"A", "b", LF, "c", ":", "d", LF, LF>>,
      <<"Content-Length", ":", "x", LF, LF>>,
      <<"Content-Length", ":", "2", LF, LF, "x">>,
      <<"Content-Length", ":", "7", LF, LF, "x">> }

PlainFrames ==
    { Framed(ContentType_EventPlain, b) : b \in PlainBodies }
    \cup { Block(ContentType_EventPlain, Empty, << >>) }

Frames ==
    LengthFrames \cup ReplyFramesOf \cup ApiFrames \cup ValueFrames
        \cup JSONFrames \cup PlainFrames

\* The streams of n frames.
RECURSIVE StreamsOf(_)
StreamsOf(n) ==
    IF n = 0 THEN { << >> }
    ELSE { f \o s : f \in Frames, s \in StreamsOf(n - 1) }

Streams == UNION { StreamsOf(n) : n \in 1..MaxStreamFrames }

ParseInit ==
    /\ ConnectionInit
    /\ stream \in Streams
    /\ reader = stream
    /\ calls = << >>

\* One call of ParseResponse.  A panic ends the process; after io.EOF the
\* reader has nothing more to give.
ParseCall ==
    /\ stream # Empty
    /\ calls # << >> =>
          /\ ~calls[Len(calls)].result.panic
          /\ calls[Len(calls)].result.err.kind # "EOF"
    /\ calls' = Append(calls, [reader |-> reader,
                               result |-> ParseResponseOn(reader)])
    /\ reader' = ParseResponseOn(reader).rest
    /\ UNCHANGED << stream, connectionVars >>

ParseNext == ParseCall

ParseSpec == ParseInit /\ [][ParseNext]_vars

---------------------------------------------------------------------------
\* Properties.

IsPrefix(s, t) == Len(s) <= Len(t) /\ SubSeq(t, 1, Len(s)) = s

\* The operation of p has returned.
Returned(p) == pc[p] = "idle" /\ result[p].kind # "none"

\* The frame the peer sent in answer to command c.
ReplyTo(c) == CHOOSE f \in {sent[i] : i \in 1..Len(sent)} : f.re = c

(***************************************************************************)
(* C1: on an authenticated connection used by one caller issuing one Send  *)
(* at a time, with no timeout firing, against a peer that sends one        *)
(* well-formed non-error reply per command and nothing else (quiet), every *)
(* Send that has returned returned no error but the frame the peer sent in *)
(* reply to that very command, body included.                              *)
(***************************************************************************)
C1_SendReturnsItsReply ==
    \A p \in Callers :
        (quiet /\ Returned(p)) =>
            /\ result[p].kind = "frame"
            /\ result[p].msg.re = op[p].id
            /\ result[p].msg = ReplyTo(op[p].id)
            /\ result[p].msg.body = ReplyTo(op[p].id).body

\* Two consecutive commands of the quiet run have both been answered.
C1_Witness ==
    /\ quiet
    /\ ops = 2
    /\ Returned("c1")
    /\ result["c1"].msg.re = 2
    /\ result["c1"].msg.body = BodyTrue
    /\ Len(handedLog) = 2

(***************************************************************************)
(* C2: however many Close() calls callers and the read loop make, one      *)
(* after the other or at once, the teardown runs exactly once (the handoff *)
(* channel is closed once, the flag set, the socket closed once) and no    *)
(* call closes the closed channel.                                         *)
(***************************************************************************)
C2_TeardownOnce ==
    /\ teardowns <= 1
    /\ connCloses <= 1
    /\ Cardinality({q \in Closers : closePc[q] \in {"chan", "flag", "conn"}})
         <= 1
    /\ closeOnce = "new" => teardowns = 0 /\ ~chClosed /\ conn # "closed"
    /\ closeOnce = "done" =>
         teardowns = 1 /\ connCloses = 1 /\ chClosed /\ isClosed
                       /\ conn = "closed"
    /\ \A q \in Closers : closePc[q] = "chan" => ~chClosed

\* A caller and the read loop have both called Close() and both calls
\* have returned.
C2_Witness ==
    /\ \E p \in Callers : op[p].kind = "Close" /\ Returned(p)
    /\ outerPc = "end"
    /\ \A q \in Closers : closePc[q] = "-"
    /\ teardowns = 1

(***************************************************************************)
(* C7: the read loop is started, and NewClient returns the connection,     *)
(* only after a first header with Content-Type auth/request was read, the  *)
(* auth command was written after it and the next header's Reply-Text was  *)
(* exactly "+OK accepted"; otherwise an error is returned and no loop      *)
(* runs.  At most one loop is started.  The auth command is never written  *)
(* before the challenge was read.                                          *)
(***************************************************************************)
C7_AuthGuardsLoop ==
    /\ loopStarts <= 1
    /\ (loopStarts = 1) = (client = "conn")
    /\ (loopStarts = 1) = (loopPc # "none")
    /\ loopStarts = 1 =>
         /\ authHdr.ct = ContentType_AuthRequest
         /\ Len(out) >= 1 /\ out[1] = 0
         /\ authReply.reply = OKAccepted
         /\ mainErr = NoError
    /\ Len(out) >= 1 => authHdr.ct = ContentType_AuthRequest /\ rd >= 1
    /\ (mainPc = "returned" /\ loopStarts = 0) =>
         client = "nil" /\ mainErr # NoError

\* The handshake succeeded and the loop runs.
C7_Witness ==
    /\ mainPc = "returned"
    /\ client = "conn"
    /\ loopStarts = 1
    /\ authReply.reply = OKAccepted

(***************************************************************************)
(* C8: when the dial or the handshake fails, NewClient returns the error   *)
(* and no connection; a socket that was opened has been closed exactly     *)
(* once, and no read loop runs for it.                                     *)
(***************************************************************************)
C8_FailureReturnsNothing ==
    /\ mainErr # NoError => client # "conn" /\ loopStarts = 0
                               /\ loopPc = "none" /\ outerPc = "none"
    /\ (mainPc = "returned" /\ mainErr # NoError) =>
         /\ client = "nil"
         /\ IF mainErr.kind = "DialError"
            THEN conn = "none" /\ connCloses = 0
            ELSE conn = "closed" /\ connCloses = 1 /\ teardowns = 1
    /\ (mainPc = "returned" /\ client = "nil") => mainErr # NoError

\* A handshake refused by the peer: NewClient has returned the error.
C8_Witness ==
    /\ mainPc = "returned"
    /\ mainErr.kind = "InvalidPassword"
    /\ client = "nil"
    /\ connCloses = 1

(***************************************************************************)
(* C10: frames are handed over in wire order: the frames handed off        *)
(* through the handoff channel are, in order, the first frames the loop    *)
(* parsed; at most the one frame the loop holds is not yet handed off, and *)
(* before the channel is closed none is skipped; the loop parses them in   *)
(* the order the peer sent them.                                           *)
(***************************************************************************)
C10_WireOrder ==
    /\ IsPrefix(handedLog, parsedLog)
    /\ Len(parsedLog) <= Len(handedLog) + 1
    /\ (~chClosed /\ loopPc = "parse") => handedLog = parsedLog
    /\ \A i, j \in 1..Len(parsedLog) : i < j => parsedLog[i] < parsedLog[j]
    /\ \A p \in Callers :
         result[p].kind = "frame" =>
            \E k \in 1..Len(handedLog) : handedLog[k] = result[p].msg.id

\* Two frames went to two consumers, a ReadMessage and a Send.
C10_Witness ==
    /\ Len(handedLog) = 2
    /\ \E p, q \in Callers :
         /\ op[p].kind = "ReadMessage" /\ result[p].kind = "frame"
         /\ op[q].kind = "Send" /\ result[q].kind = "frame"
         /\ result[p].msg.id < result[q].msg.id

(***************************************************************************)
(* C3: a Send, SendWithContext or ReadMessage that is waiting for a frame  *)
(* when close() closes the handoff channel eventually returns, and returns *)
(* an error, never a frame.                                                *)
(***************************************************************************)
C3_WaitersUnblocked ==
    \A p \in Callers :
        [](pc[p] = "wait" /\ chClosed
              => <>(Returned(p) /\ result[p].kind = "err"))

(***************************************************************************)
(* C4: a rejected command is not fatal: once a caller has got the          *)
(* CommandError of a -ERR reply, the read loop is still running and        *)
(* Close() has not been triggered by it.                                   *)
(***************************************************************************)
C4_RejectedNotFatal ==
    \A p \in Callers :
        (Returned(p) /\ result[p].err.kind = "CommandError") =>
            /\ loopPc \in {"parse", "check", "send"}
            /\ outerPc = "waitDone"
            /\ closePc["recv"] = "-"

\* The errors of the stream: a block that cannot be read, a missing or
\* unknown Content-Type, the end of the stream, a failing socket.
StreamErrors == {"ProtocolError", "ParseEOF", "NotAllowed", "EOF", "IOError"}

LoopFailed == loopPc = "sendErr" /\ loopErr.kind \in StreamErrors

\* The inner goroutine is past its last doMessage.
LoopStopped == loopPc \in {"sendErr", "sendDone", "exit"}

(***************************************************************************)
(* C5: once the read loop has hit a protocol or IO failure while parsing,  *)
(* it parses no further frame and the connection is eventually closed,     *)
(* whether or not a caller is waiting in Send or ReadMessage.              *)
(***************************************************************************)
C5_FailureCloses ==
    /\ [][LoopStopped => (parsedLog' = parsedLog /\ rd' = rd)]_vars
    /\ [](LoopFailed => <>(closeOnce = "done"))

\* A Send-type operation whose ctx has a deadline is under way.
Sending(p) ==
    /\ pc[p] \in {"lock", "write", "writeRest", "wait"}
    /\ op[p].kind \in {"Send", "SendWithContext"}
    /\ op[p].deadline

\* No operation under way has a ctx that never ends.
AllBounded ==
    \A q \in Callers :
        (pc[q] \in {"lock", "write", "wait"}
            /\ op[q].kind = "SendWithContext")
            => op[q].deadline

(***************************************************************************)
(* C6: a wait that ends by its deadline returns the context's error and    *)
(* releases the write lock (the lock is only ever held by an operation     *)
(* that is under way), and nothing deadlocks afterwards: on a connection   *)
(* nobody closes, a later Send with a deadline eventually returns, whether *)
(* or not the late reply to the timed-out command arrives in between.      *)
(***************************************************************************)
C6_TimeoutNoDeadlock ==
    /\ [](\A p \in Callers :
            /\ writeLock = p => pc[p] \in {"write", "writeRest", "wait"}
            /\ (Returned(p) /\ result[p].err.kind = "DeadlineExceeded")
                  => result[p].kind = "err" /\ writeLock # p)
    /\ \A p \in Callers :
          []((timeouts = 1 /\ Sending(p) /\ AllBounded /\ closeOnce = "new")
                => <>(Returned(p) \/ ~AllBounded \/ closeOnce # "new"))

(***************************************************************************)
(* C9: the handshake runs under the caller's deadline: once the deadline   *)
(* of the context given to Authenticate has passed, Authenticate does not  *)
(* stay blocked in a read, it returns.                                     *)
(***************************************************************************)
C9_HandshakeDeadline ==
    [](authCtx = "done" => <>(mainPc \in {"failed", "closing", "returned"}))

\* The operation of p is a SendEvent or SendMsg given data with "\r\n" inside.
GivenCRLF(p) == op[p].kind \in {"SendEvent", "SendMsg"} /\ HasCRLF(op[p].arg)

(***************************************************************************)
(* C11: SendEvent and SendMsg reject caller data with "\r\n" inside: no    *)
(* write ever carries such data, and once the operation is past its        *)
(* checks it has written nothing, waits for no reply and has returned the  *)
(* validation error with the write lock released.                          *)
(***************************************************************************)
C11_CRLFRejected ==
    /\ \A i \in 1..Len(wlog) : ~HasCRLF(wlog[i].data)
    /\ \A p \in Callers :
          (GivenCRLF(p) /\ pc[p] \notin {"lock", "write"}) =>
              /\ Returned(p)
              /\ result[p].err.kind = "InvalidArgument"
              /\ writeLock # p
              /\ \A i \in 1..Len(wlog) : wlog[i].id # op[p].id

\* The frame is an event: its Content-Type is one of the three event types.
IsEvent(f) ==
    f.ct \in {ContentType_EventPlain, ContentType_EventJSON,
              ContentType_EventXML}

(***************************************************************************)
(* C12: events are drained apart from replies: an operation that sent a    *)
(* command and has returned a frame did not return an event frame, it      *)
(* returned the frame sent in reply to its own command; event frames are   *)
(* returned by ReadMessage only.                                           *)
(***************************************************************************)
C12_EventsNotReplies ==
    \A p \in Callers :
        (Returned(p) /\ op[p].kind # "ReadMessage"
                     /\ result[p].kind = "frame") =>
            /\ ~IsEvent(result[p].msg)
            /\ result[p].msg.re = op[p].id

\* The operations C13 is about.
UsesConnection(p) ==
    op[p].kind \in {"Send", "SendWithContext", "SendAsync", "SendEvent",
                    "SendMsg", "ReadMessage"}

(***************************************************************************)
(* C13: an operation started after Close() has completed returns, it       *)
(* returns an error, and it never returns a frame.                         *)
(***************************************************************************)
C13_ClosedMeansError ==
    \A p \in Callers :
        /\ []((UsesConnection(p) /\ op[p].afterClose /\ Returned(p))
                 => result[p].kind = "err")
        /\ []((UsesConnection(p) /\ op[p].afterClose /\ pc[p] # "idle")
                 => <>Returned(p))

\* The part of C13 that is about what is returned, without the part about
\* returning at all.
C13_NoFrameAfterClose ==
    \A p \in Callers :
        (UsesConnection(p) /\ op[p].afterClose /\ Returned(p))
            => result[p].kind = "err"

(***************************************************************************)
(* C18: the closed-flag check of doMessage keeps the read loop from ever   *)
(* being at its send on the handoff channel once close() has closed the    *)
(* channel, so that no send on the closed channel panics.                  *)
(***************************************************************************)
C18_NoSendOnClosed ==
    /\ ~(loopPc = "send" /\ chClosed)
    /\ ~(panicked /\ loopPc = "send")

(***************************************************************************)
(* C19: what is written to the socket is a concatenation of whole          *)
(* commands: a write that is not the last write of its command is followed *)
(* by the next write of the same command, never by a write of another      *)
(* command.                                                                *)
(***************************************************************************)
C19_WholeCommands ==
    \A i \in 1..(Len(wlog) - 1) :
        wlog[i].part < wlog[i].parts =>
            /\ wlog[i + 1].id = wlog[i].id
            /\ wlog[i + 1].part = wlog[i].part + 1

\* The part of C19 that is about the write lock: no write of another
\* command comes between two writes of one command.
C19_WritesContiguous ==
    \A i, j \in 1..Len(wlog) :
        (i < j /\ wlog[i].id = wlog[j].id) =>
            \A k \in i..j : wlog[k].id = wlog[i].id

---------------------------------------------------------------------------
\* Properties of ParseResponse, over the calls made on the stream.

\* What call i was given: the header block at the head of its reader, the
\* block's Content-Type and Content-Length, the bytes after the block.
Given(i) == MIMEHeader(calls[i].reader)
GivenType(i) == Join(Get(Given(i).header, "Content-Type"))
GivenLength(i) == Get(Given(i).header, "Content-Length")
Following(i) == Given(i).rest

\* The block of call i was readable and had a Content-Type.
Readable(i) == Given(i).err = "nil" /\ GivenType(i) # ""

\* The block of call i declares a number of bytes.
Declares(i) ==
    /\ GivenLength(i) # Empty
    /\ Atoi(GivenLength(i)).ok
    /\ Atoi(GivenLength(i)).n >= 0

Declared(i) == Atoi(GivenLength(i)).n

\* The body the block of call i announces, when the stream holds it.
GivenBody(i) ==
    IF GivenLength(i) = Empty THEN Empty
    ELSE SubSeq(Following(i), 1, Declared(i))

\* The call returned a response and no error.
IsFrame(r) == ~r.panic /\ ~r.nil /\ r.err = NoError

(***************************************************************************)
(* C14: a header block whose Content-Type is outside the allow-list makes  *)
(* ParseResponse return the unsupported-content-type error and a nil       *)
(* response, whatever its Content-Length is and however many bytes follow. *)
(***************************************************************************)
C14_UnsupportedType ==
    \A i \in 1..Len(calls) :
        (Readable(i) /\ ~IsExistInSlice(GivenType(i), AllowedContentTypes)) =>
            /\ ~calls[i].result.panic
            /\ calls[i].result.nil
            /\ calls[i].result.err.kind = "NotAllowed"

ErrMarker == ERR \o <<" ">>

\* The payload without the marker it begins with.
WithoutMarker(payload) ==
    IF IsPrefix(ErrMarker, payload) THEN SubSeq(payload, 6, Len(payload))
    ELSE IF IsPrefix(ERR, payload) THEN SubSeq(payload, 5, Len(payload))
    ELSE payload

\* Call i was given a command/reply or api/response frame, whole, whose
\* payload holds "-ERR".
ErrorPayload(i) ==
    IF GivenType(i) = ContentType_Reply
    THEN Get(Given(i).header, "Reply-Text")
    ELSE GivenBody(i)

GivenError(i) ==
    /\ Readable(i)
    /\ GivenType(i) \in {ContentType_Reply, ContentType_APIResponse}
    /\ GivenLength(i) = Empty
          \/ (Declares(i) /\ Len(Following(i)) >= Declared(i))
    /\ Contains(ErrorPayload(i), ERR)

(***************************************************************************)
(* C16: a command/reply frame whose Reply-Text holds "-ERR" and an         *)
(* api/response frame whose body holds "-ERR", of any length and with the  *)
(* "-ERR" anywhere, make ParseResponse return, without a panic, a nil      *)
(* response and a CommandError whose text is the payload without its       *)
(* leading "-ERR " marker.                                                 *)
(***************************************************************************)
C16_CommandError ==
    \A i \in 1..Len(calls) :
        GivenError(i) =>
            /\ ~calls[i].result.panic
            /\ calls[i].result.nil
            /\ calls[i].result.err.kind = "CommandError"
            /\ calls[i].result.err.text = WithoutMarker(ErrorPayload(i))

\* Call i was given a text/event-json frame, whole, whose body is a JSON
\* object.
GivenObject(i) ==
    /\ Readable(i)
    /\ GivenType(i) = ContentType_EventJSON
    /\ Declares(i) /\ Len(Following(i)) >= Declared(i)
    /\ GivenBody(i) # Empty /\ Head(GivenBody(i)) = "{"
    /\ Unmarshal(GivenBody(i)).ok

\* The properties of that object, and those with a string value.
Properties(i) == Unmarshal(GivenBody(i)).decoded

StringProperties(i) ==
    { k \in DOMAIN Properties(i) : Properties(i)[k].type = "string" }

(***************************************************************************)
(* C17: for a text/event-json frame whose body is a JSON object the        *)
(* response returned has as headers exactly the object's string-valued     *)
(* properties other than "_body", as body the value of "_body" when that   *)
(* is a string and not empty and the empty body otherwise, and never has   *)
(* "_body" among its header keys.                                          *)
(***************************************************************************)
C17_EventJSON ==
    \A i \in 1..Len(calls) :
        GivenObject(i) =>
            /\ IsFrame(calls[i].result)
            /\ DOMAIN calls[i].result.Headers = StringProperties(i) \ {"_body"}
            /\ \A k \in StringProperties(i) \ {"_body"} :
                  calls[i].result.Headers[k] = Properties(i)[k].value
            /\ calls[i].result.Body =
                  IF "_body" \in StringProperties(i)
                  THEN Properties(i)["_body"].value
                  ELSE Empty
            /\ "_body" \notin DOMAIN calls[i].result.Headers

\* Call i was given a frame that is not text/event-json and that
\* ParseResponse has nothing against: a command/reply without "-ERR" or a
\* text/disconnect-notice, without body.
GivenPlainHeaders(i) ==
    /\ Readable(i)
    /\ GivenType(i) \in {ContentType_Reply, ContentType_Disconnect}
    /\ GivenLength(i) = Empty
    /\ ~Contains(Get(Given(i).header, "Reply-Text"), ERR)

\* The value cannot be percent-decoded.
Undecodable(v) == Has(v, "%") /\ ~QueryUnescape(v).ok

(***************************************************************************)
(* C20: for a frame that is not text/event-json, a header value with "%"   *)
(* inside that cannot be percent-decoded does not fail the parse and is    *)
(* kept as it was read; a value without "%" is copied unchanged.           *)
(***************************************************************************)
C20_RawValueKept ==
    \A i \in 1..Len(calls) :
        GivenPlainHeaders(i) =>
            /\ IsFrame(calls[i].result)
            /\ \A k \in Keys(Given(i).header) :
                  (Undecodable(Get(Given(i).header, k))
                       \/ ~Has(Get(Given(i).header, k), "%")) =>
                      /\ k \in DOMAIN calls[i].result.Headers
                      /\ calls[i].result.Headers[k] = Get(Given(i).header, k)

\* Call i was given a text/event-plain frame whose body, as long as its
\* Content-Length says, is in the stream.
GivenEventPlain(i) ==
    /\ Readable(i)
    /\ GivenType(i) = ContentType_EventPlain
    /\ GivenLength(i) # Empty => Declares(i) /\ Len(Following(i)) >= Declared(i)

\* The header block inside the body of call i, and the Content-Length it
\* carries.
Nested(i) == MIMEHeader(GivenBody(i))
NestedLength(i) == Get(Nested(i).header, "Content-Length")

\* What is wrong with the body of call i: its header block, the number in
\* its Content-Length, or the bytes after the block being fewer than that
\* number.
NestedMalformed(i) == Nested(i).err # "nil"
NestedNotNumeric(i) ==
    /\ Nested(i).err = "nil"
    /\ NestedLength(i) # Empty
    /\ ~Atoi(NestedLength(i)).ok
NestedShort(i) ==
    /\ Nested(i).err = "nil"
    /\ NestedLength(i) # Empty
    /\ Atoi(NestedLength(i)).ok
    /\ Atoi(NestedLength(i)).n >= 0
    /\ Len(Nested(i).rest) < Atoi(NestedLength(i)).n

(***************************************************************************)
(* C21: a text/event-plain frame whose body has a malformed header block,  *)
(* a Content-Length that is no number, or fewer bytes after the block than *)
(* that Content-Length declares, makes ParseResponse return a              *)
(* ProtocolError and no response, without a panic, whatever the length of  *)
(* the body.                                                               *)
(***************************************************************************)
C21_NestedProtocolError ==
    \A i \in 1..Len(calls) :
        (GivenEventPlain(i)
            /\ (NestedMalformed(i) \/ NestedNotNumeric(i) \/ NestedShort(i))) =>
            /\ ~calls[i].result.panic
            /\ calls[i].result.nil
            /\ calls[i].result.err.kind = "ProtocolError"

---------------------------------------------------------------------------
\* Properties of the write lock and of the handoff, continued.

\* The operations that write a command and wait for its reply.
SendType(p) ==
    op[p].kind \in {"Send", "SendWithContext", "SendEvent", "SendMsg"}

\* p has written its command, or the first part of it, and has not
\* returned.
Awaiting(p) == SendType(p) /\ pc[p] \in {"writeRest", "wait"}

(***************************************************************************)
(* C22: the write lock is held from before a command is written until the  *)
(* operation returns: an operation between its write and its return holds  *)
(* the lock, at most one operation is there at a time, and while it is     *)
(* there every write to the socket is a write of its own command.          *)
(***************************************************************************)
C22_OneWriterWhileWaiting ==
    /\ [](\A p \in Callers : Awaiting(p) => writeLock = p)
    /\ [](\A p, q \in Callers : (Awaiting(p) /\ Awaiting(q)) => p = q)
    /\ [][\A p \in Callers :
             (Awaiting(p) /\ wlog' # wlog) =>
                 /\ Len(wlog') = Len(wlog) + 1
                 /\ wlog'[Len(wlog')].id = op[p].id]_vars

\* One caller waits for its reply while a SendAsync of the other caller
\* stands at the lock.
C22_Witness ==
    \E p, q \in Callers :
        /\ Awaiting(p) /\ pc[p] = "wait"
        /\ op[q].kind = "SendAsync" /\ pc[q] = "lock"


\* The frames doMessage had parsed when p made the write that put its
\* command on the wire.
ParsedBefore(p) ==
    LET w == CHOOSE i \in 1..Len(wlog) :
                 wlog[i].id = op[p].id /\ wlog[i].part = wlog[i].parts
    IN  { parsedLog[k] : k \in 1..wlog[w].parsed }

\* p has returned a frame from an operation that wrote a command.
ReturnedReply(p) ==
    Returned(p) /\ SendType(p) /\ result[p].kind = "frame"

(***************************************************************************)
(* C23: a frame returned by an operation that sends a command was parsed   *)
(* off the wire after the operation wrote that command: no frame parsed    *)
(* before the write, such as the reply to an earlier SendAsync or to an    *)
(* earlier Send that timed out, is returned as the reply.                  *)
(***************************************************************************)
C23_ReplyParsedAfterWrite ==
    \A p \in Callers :
        ReturnedReply(p) => result[p].msg.id \notin ParsedBefore(p)


\* A Close() called by a caller has returned.
CallerClosed == \E p \in Callers : op[p].kind = "Close" /\ Returned(p)

\* Both goroutines of receiveLoop are over: the inner one is past
\* done <- true and receiveLoop is past its c.Close(); or the process is.
LoopGoroutinesEnded == panicked \/ (loopPc = "exit" /\ outerPc = "end")

(***************************************************************************)
(* C24: after a Close() called by a caller on an authenticated connection  *)
(* has returned, the inner goroutine of the read loop and receiveLoop      *)
(* itself eventually end, whether or not a caller waits in Send or         *)
(* ReadMessage afterwards.                                                 *)
(***************************************************************************)
C24_LoopGoroutinesEnd == CallerClosed ~> LoopGoroutinesEnded

====
